---- MODULE Spec2Model ----
(***************************************************************************)
(* Fix orchestrator of the SonarQube code janitor (backend/app).           *)
(*                                                                         *)
(* The store (issues, events) is the committed content of the database.    *)
(* Every invocation of an orchestrator operation runs in its own database  *)
(* session, held in a slot of inv; what a session has added or changed is  *)
(* invisible to the others until its db.commit().  Sessions may be served  *)
(* by different worker processes sharing the database, so they interleave  *)
(* at the level of the actions below.  The gateways (SonarQube, GitHub,    *)
(* OpenAI) are the environment: each call may succeed or raise.            *)
(***************************************************************************)
EXTENDS Integers, Sequences, FiniteSets, TLC

\* ---------------------------------------------------------------- bounds
NumKeys == 2      \* distinct natural keys the analyzer can report
NumMsgs == 2      \* distinct descriptive payloads of one finding
MaxBatch == 2     \* records in one analyzer response
NumSlots == 2     \* sessions that can be open at the same time
NumRaceKeys == 1  \* natural keys the analyzer reports while sessions interleave
MaxEvents == 6    \* a fix attempt starts only while the logs have room for it
MaxFixBatch == 2  \* issues one sweep of the poller takes, at most

Keys == 1..NumKeys
Msgs == 1..NumMsgs
Slots == 1..NumSlots

\* ---------------------------------------------------------------- data model
IssueStatus == {"NEW", "FIXING", "PR_OPEN", "CI_PASSED", "CI_FAILED", "CLOSED"}

EventType == {"ISSUE_DETECTED", "AI_CALLED", "PR_CREATED", "CI_PASSED",
              "CI_FAILED", "STATUS_UPDATED", "ERROR"}

\* Column(..., nullable=True) left unset
None == <<>>

\* attributes mapped on the ORM class Issue
IssueColumns == {"id", "sonarqube_issue_key", "project_key", "rule", "severity",
                 "component", "line", "message", "status", "pr_url", "pr_branch",
                 "created_at", "updated_at"}

\* a row of table issues as Issue(...) creates it from a record with natural key
\* k and descriptive payload m; pr_merged is the table column added by
\* migration 002 with server default 0
NewIssue(k, m) ==
  [key |-> k, msg |-> m, status |-> "NEW",
   pr_url |-> None, pr_branch |-> None, pr_merged |-> 0]

\* Event(issue_id=..., event_type=t, message=m); the owning issue is the index
\* of the log the event is appended to
Event(t, m) == [event_type |-> t, message |-> m]

\* the sequences over S of length n at most
RECURSIVE SeqsUpTo(_, _)
SeqsUpTo(S, n) ==
  IF n = 0 THEN {<<>>}
  ELSE LET shorter == SeqsUpTo(S, n - 1)
       IN  shorter \cup {Append(q, x) : q \in {r \in shorter : Len(r) = n - 1}, x \in S}

\* page_size=500 at line 36, at the scale of the model: the records one call
\* of get_issues returns at most
PageSize == MaxBatch

\* what the analyzer holds beyond the page get_issues returned: nothing when
\* the page is not full, otherwise nothing or one more finding (get_issues
\* asks for page 1 and reads no paging information)
LaterPages(b) ==
  IF Len(b) = PageSize THEN {<<>>} \cup {<<k>> : k \in Keys} ELSE {<<>>}

\* what the analyzer answers and holds: page, the natural keys of the records
\* of the response, in order (the descriptive payload of the records is drawn
\* with the response), and rest, the findings it holds beyond that page (drawn
\* when paged, otherwise none)
Responses(K, paged) ==
  UNION { {[page |-> b, rest |-> r] : r \in IF paged THEN LaterPages(b) ELSE {<<>>}} :
          b \in SeqsUpTo(K, MaxBatch) }

\* the analyzer responses of a project that fits one page
Batches == Responses(Keys, FALSE)

\* the responses drawn where sessions interleave
RaceBatches == Responses(Keys \cap (1..NumRaceKeys), FALSE)

\* the responses of a project whose findings do not change: every key, once
SteadyBatches ==
  {r \in Batches : /\ Len(r.page) = NumKeys
                   /\ \A k \in Keys : \E j \in 1..Len(r.page) : r.page[j] = k}

\* the analyzer responses of a project of any size
PagedBatches == Responses(Keys, TRUE)

VARIABLES
  issues,    \* committed rows of table issues, in insertion order (index = id)
  events,    \* events[i]: committed events of issue i, in insertion order
  gh,        \* gh[k]: GitHub state of the fix branch and pull request of key k
  inv,       \* inv[s]: the invocation running in session s
  ret,       \* the invocation that ended in the last step, with its result
  poller     \* the background task: where its loop stands

vars == <<issues, events, gh, inv, ret, poller>>

IssueIds == 1..Len(issues)

\* ---------------------------------------------------------------- sessions
NoResult == [kind |-> "none", success |-> FALSE, msg |-> "", val |-> <<>>]

\* no HTTP response: the operation was not called through a route
NoResponse == [code |-> 0, success |-> FALSE, message |-> ""]

\* a route that turns a failed attempt into a server error
TriggerFixRaises(found, result) ==
  IF ~found
  THEN [code |-> 404, success |-> FALSE, message |-> "Issue not found"]
  ELSE IF result.kind = "raise" \/ ~result.success
  THEN [code |-> 500, success |-> FALSE, message |-> ""]
  ELSE [code |-> 200, success |-> result.success, message |-> result.msg]

\* api.py, trigger_fix: HTTPException(404) when the route's own query finds no
\* issue (found is false); otherwise TriggerFixResponse with success and
\* message taken from the dict attempt_fix returned; an exception escaping
\* attempt_fix would be a server error
TriggerFix(found, result) ==
  IF ~found
  THEN [code |-> 404, success |-> FALSE, message |-> "Issue not found"]
  ELSE IF result.kind = "raise"
  THEN [code |-> 500, success |-> FALSE, message |-> ""]
  ELSE [code |-> 200, success |-> result.success, message |-> result.msg]

\* a session with no invocation running in it
Idle ==
  [op |-> "idle", pc |-> "done", iid |-> 0, batch |-> <<>>,
   rest |-> <<>>, pend |-> <<>>, count |-> 0, sha |-> 0, again |-> FALSE, calls |-> <<>>,
   added |-> <<>>, fault |-> FALSE, res |-> NoResult,
   ai |-> "none", stale |-> FALSE, http |-> NoResponse]

\* the dict (or count) an operation returns
Return(ok, m, v) == [kind |-> "return", success |-> ok, msg |-> m, val |-> v]

\* the exception an operation lets escape
Raise(m) == [kind |-> "raise", success |-> FALSE, msg |-> m, val |-> <<>>]

\* a gateway call as the invocation made it, with its outcome
Call(name, ok) == [name |-> name, ok |-> ok]

Free(s) == inv[s].op = "idle"

\* sessions are interchangeable: a new invocation takes the lowest free one
Lowest(s) == Free(s) /\ \A u \in Slots : u < s => ~Free(u)

\* the invocation of session s goes on as slot; nothing ends in this step
Continue(s, slot) ==
  /\ inv' = [inv EXCEPT ![s] = slot]
  /\ ret' = Idle

\* the invocation of session s ends with result; the session is free again.
\* For an attempt, http is what the route trigger_fix answers when the attempt
\* was started through it.
Finish(s, slot, result) ==
  /\ inv' = [inv EXCEPT ![s] = Idle]
  /\ ret' = [slot EXCEPT !.pc = "done", !.res = result, !.sha = 0, !.pend = <<>>,
                         !.http = IF slot.op = "fix"
                                  THEN TriggerFix(slot.iid \in 1..Len(issues), result)
                                  ELSE NoResponse]

\* ---------------------------------------------------------------- store
\* a lookup that finds nothing
ExistingNever(rows, pend, k) == FALSE

\* db.query(Issue).filter(Issue.sonarqube_issue_key == issue_key).first(): the
\* query sees the committed rows and the rows this session has flushed
Existing(rows, pend, k) ==
  \/ \E i \in 1..Len(rows) : rows[i].key = k
  \/ \E j \in 1..Len(pend) : pend[j].key = k

\* a table without the unique index
NoUniqueIndex(rows, k) == FALSE

\* sonarqube_issue_key = Column(String(255), unique=True, ...): the unique index
\* refuses a row whose key a row of the table already has
UniqueViolation(rows, k) == \E i \in 1..Len(rows) : rows[i].key = k

\* the outcomes of one flush or commit: the database may fail at any statement
\* (the fault field of an invocation notes that it did)
StoreOutcomes == BOOLEAN

\* a rollback that lets the pending rows through
RollbackKeeps(committed, pending) == committed \o pending

\* db.rollback(): what the table holds after the session dropped the rows it
\* had pending
Rollback(committed, pending) == committed

\* ---------------------------------------------------------------- sync
\* what the loop over issues_data has done so far: the rows flushed, the events
\* added, new_count, and whether a flush raised
LoopStart == [pend |-> <<>>, added |-> <<>>, count |-> 0, raised |-> FALSE]

\* lines 42-79, from record idx on.  A record whose key exists is skipped;
\* otherwise the row is added and flushed, the detection event added and
\* new_count incremented.  m is the descriptive payload the response carries,
\* flushOk whether the database accepts the flushes.
RECURSIVE SyncLoop(_, _, _, _, _, _)
SyncLoop(rows, batch, idx, m, flushOk, acc) ==
  IF idx > Len(batch) THEN acc
  ELSE IF Existing(rows, acc.pend, batch[idx])
  THEN SyncLoop(rows, batch, idx + 1, m, flushOk, acc)
  ELSE IF ~flushOk \/ UniqueViolation(rows \o acc.pend, batch[idx])
  THEN [acc EXCEPT !.raised = TRUE]
  ELSE SyncLoop(rows, batch, idx + 1, m, flushOk,
                [acc EXCEPT !.pend = Append(@, NewIssue(batch[idx], m)),
                            !.added = Append(@, Event("ISSUE_DETECTED", m)),
                            !.count = @ + 1])

\* detection events that are never written
DetectionLogsEmpty(pend) == [j \in 1..Len(pend) |-> <<>>]

\* detection events written twice
DetectionLogsTwice(pend) ==
  [j \in 1..Len(pend) |-> <<Event("ISSUE_DETECTED", pend[j].msg),
                            Event("ISSUE_DETECTED", pend[j].msg)>>]

\* the detection events of the rows a sync commits, one log per row
DetectionLogs(pend) ==
  [j \in 1..Len(pend) |-> <<Event("ISSUE_DETECTED", pend[j].msg)>>]

\* sync_sonarqube_issues, lines 32-79: the analyzer call and the loop over its
\* records, up to the commit.  The call or a flush may raise (handler 85-88:
\* rollback, re-raise).  again notes that the invocation before this one was a
\* sync that committed on the same response, B the responses to draw from.
SyncFetch(s, B) ==
  /\ Lowest(s)
  /\ \/ /\ Finish(s, [Idle EXCEPT !.op = "sync",
                                  !.calls = <<Call("get_issues", FALSE)>>],
                  Raise("get_issues"))
        /\ issues' = Rollback(issues, <<>>)
        /\ events' = Rollback(events, <<>>)
     \/ \E r \in B, flushOk \in StoreOutcomes, m \in Msgs :
          LET b == r.page
              later == r.rest
              out == SyncLoop(issues, b, 1, m, flushOk, LoopStart)
              me == [Idle EXCEPT !.op = "sync", !.pc = "commit", !.batch = b,
                                 !.rest = later,
                                 !.again = (ret.op = "sync" /\ ret.res.kind = "return"
                                            /\ ret.batch = b /\ ret.rest = later),
                                 !.calls = <<Call("get_issues", TRUE)>>]
          IN  IF out.raised
              THEN /\ Finish(s, [me EXCEPT !.fault = ~flushOk], Raise("flush"))
                   /\ issues' = Rollback(issues, out.pend)
                   /\ events' = Rollback(events, DetectionLogs(out.pend))
              ELSE /\ Continue(s, [me EXCEPT !.pend = out.pend, !.added = out.added,
                                          !.count = out.count])
                   /\ UNCHANGED <<issues, events>>
  /\ UNCHANGED gh

\* lines 81-83: db.commit() after the loop, then return new_count.  The commit
\* fails as a whole (handler 85-88) when the database fails or when a row of
\* the batch collides with a key another session committed meanwhile.
SyncCommit(s) ==
  LET me == inv[s]
  IN  /\ me.op = "sync" /\ me.pc = "commit"
      /\ \E ok \in StoreOutcomes :
           IF ok /\ \A j \in 1..Len(me.pend) : ~UniqueViolation(issues, me.pend[j].key)
           THEN /\ issues' = issues \o me.pend
                /\ events' = events \o DetectionLogs(me.pend)
                /\ Finish(s, me, Return(TRUE, "synced", <<me.count>>))
           ELSE /\ Finish(s, [me EXCEPT !.added = <<>>, !.fault = ~ok],
                          Raise("commit"))
                /\ issues' = Rollback(issues, me.pend)
                /\ events' = Rollback(events, DetectionLogs(me.pend))
      /\ UNCHANGED gh

\* ---------------------------------------------------------------- GitHub
\* github_client.default_branch never moves in the model: the token
\* get_file_content returns for a file on it
MainVersion == 0

NoRepoState == [branch |-> "none", pr |-> "none", opened |-> 0]

\* version of the file on the fix branch: the default branch's until update_file
\* committed the fix to the branch
BranchVersion(g) == IF g.branch = "committed" THEN MainVersion + 1 ELSE MainVersion

\* create_branch: a branch that exists is reused (status 422 is swallowed)
CreateBranch(g) == IF g.branch = "none" THEN [g EXCEPT !.branch = "fresh"] ELSE g

\* repo.update_file(path, message, content, sha, branch): GitHub refuses a sha
\* that is not the file's current one on that branch
UpdateFileAccepted(g, sha) == g.branch # "none" /\ sha = BranchVersion(g)

\* repo.create_pull: GitHub refuses a second open pull request for the same head
CreatePullAccepted(g) == g.branch = "committed" /\ g.pr # "open"

\* "ai-fix/{}".format(issue.sonarqube_issue_key)
BranchName(k) == <<"ai-fix", k>>

\* pr.html_url of the n-th pull request opened from the fix branch of key k
PrUrl(k, n) == <<"pull", k, n>>

\* ---------------------------------------------------------------- attempt_fix
RECURSIVE TotalLen(_)
TotalLen(logs) == IF logs = <<>> THEN 0 ELSE Len(Head(logs)) + TotalLen(Tail(logs))

\* the events in the store plus the three every attempt in flight may add
Booked == TotalLen(events) + 3 * Cardinality({s \in Slots : inv[s].op = "fix"})

\* a status check that lets a failed CI run be fixed again
FixableAfterCi(status) == status \in {"NEW", "CI_FAILED"}

\* a status check that lets a closed issue be fixed again
FixableClosed(status) == status \in {"NEW", "CLOSED"}

\* line 110: if issue.status not in [IssueStatus.NEW]
Fixable(status) == status \in {"NEW"}

\* a success path that forgets the branch name
OpenPrNoBranch(rows, i, url, branch) ==
  [rows EXCEPT ![i].status = "PR_OPEN", ![i].pr_url = url]

\* lines 231-233: issue.status = PR_OPEN, issue.pr_url = pr_url,
\* issue.pr_branch = branch_name, written by the commit at 241
OpenPr(rows, i, url, branch) ==
  [rows EXCEPT ![i].status = "PR_OPEN", ![i].pr_url = url, ![i].pr_branch = branch]

\* issue.status = st on the session's object, written by the next commit
SetStatus(rows, i, st) == [rows EXCEPT ![i].status = st]

\* an event that is built and never added to the session
AddEventForgotten(logs, i, e) == logs

\* an event written over the last one of the log
AddEventReplacing(logs, i, e) ==
  [logs EXCEPT ![i] = IF @ = <<>> THEN <<e>> ELSE [@ EXCEPT ![Len(@)] = e]]

\* db.add(Event(issue_id=issue.id, ...)) followed by a commit that succeeds
AddEvent(logs, i, e) == [logs EXCEPT ![i] = Append(@, e)]

\* the ERROR event of a failed step
ErrorEvent == Event("ERROR", "error")

\* lines 262-265: the outermost handler: rollback and a generic failure
Unexpected(s, slot) ==
  /\ Finish(s, [slot EXCEPT !.fault = TRUE], Return(FALSE, "Unexpected error", <<>>))
  /\ UNCHANGED <<issues, events>>

\* a handler that records the error and forgets the status
RevertKeepsStatus(s, slot, m) ==
  \E ok \in StoreOutcomes :
    IF ok
    THEN /\ issues' = issues
         /\ events' = [events EXCEPT ![slot.iid] = Append(@, Event("ERROR", "error"))]
         /\ Finish(s, [slot EXCEPT !.added = Append(@, Event("ERROR", "error"))],
                   Return(FALSE, m, <<>>))
    ELSE /\ Finish(s, [slot EXCEPT !.fault = TRUE],
                   Return(FALSE, "Unexpected error", <<>>))
         /\ UNCHANGED <<issues, events>>

\* a handler that puts the status back and records nothing
RevertSilently(s, slot, m) ==
  \E ok \in StoreOutcomes :
    IF ok
    THEN /\ issues' = SetStatus(issues, slot.iid, "NEW")
         /\ events' = events
         /\ Finish(s, slot, Return(FALSE, m, <<>>))
    ELSE Unexpected(s, slot)

\* the handlers at 129-139, 159-169, 191-201 and 250-260: status back to NEW,
\* an ERROR event, commit, return the failure.  A commit that fails here
\* escapes to the outermost handler.
Revert(s, slot, m) ==
  \E ok \in StoreOutcomes :
    IF ok
    THEN /\ issues' = SetStatus(issues, slot.iid, "NEW")
         /\ events' = AddEvent(events, slot.iid, ErrorEvent)
         /\ Finish(s, [slot EXCEPT !.added = Append(@, ErrorEvent)],
                   Return(FALSE, m, <<>>))
    ELSE Unexpected(s, slot)

\* lines 105-114: load the issue; reject a missing one or one that is not NEW
FixStartOn(s, i) ==
  /\ Free(s)
  /\ LET me == [Idle EXCEPT !.op = "fix", !.iid = i]
     IN  IF i \notin IssueIds
         THEN Finish(s, me, Return(FALSE, "Issue not found", <<>>))
         ELSE IF ~Fixable(issues[i].status)
         THEN Finish(s, me, Return(FALSE, "Issue already in status",
                                   <<issues[i].status>>))
         ELSE /\ Booked < MaxEvents
              /\ Continue(s, [me EXCEPT !.pc = "mark"])
  /\ UNCHANGED <<issues, events, gh>>

\* an attempt starts on the lowest free session
FixStart(s, i) == Lowest(s) /\ FixStartOn(s, i)

\* lines 116-123: status FIXING, STATUS_UPDATED event, commit
FixMark(s) ==
  LET me == inv[s]
      e == Event("STATUS_UPDATED", "FIXING")
  IN  /\ me.op = "fix" /\ me.pc = "mark"
      /\ \E ok \in StoreOutcomes :
           IF ok
           THEN /\ issues' = SetStatus(issues, me.iid, "FIXING")
                /\ events' = AddEvent(events, me.iid, e)
                /\ Continue(s, [me EXCEPT !.pc = "read", !.added = Append(@, e)])
           ELSE Unexpected(s, me)
      /\ UNCHANGED gh

\* a step 1 whose failure does not stop the attempt
FixReadFileUngated(s) ==
  LET me == inv[s]
      e == Event("AI_CALLED", "Requesting AI to generate fix")
  IN  /\ me.op = "fix" /\ me.pc = "read"
      /\ \E got \in BOOLEAN :
           /\ events' = [events EXCEPT ![me.iid] = Append(@, e)]
           /\ Continue(s, [me EXCEPT !.calls = Append(@, Call("get_file_content", got)),
                                     !.pc = "ai", !.added = Append(@, e)])
      /\ UNCHANGED <<issues, gh>>

\* lines 125-148: get_file_content; on failure revert, otherwise keep the
\* token, add the AI_CALLED event and commit
FixReadFile(s) ==
  LET me == inv[s]
      e == Event("AI_CALLED", "Requesting AI to generate fix")
  IN  /\ me.op = "fix" /\ me.pc = "read"
      /\ \/ Revert(s, [me EXCEPT !.calls = Append(@, Call("get_file_content", FALSE))],
                   "Failed to fetch file from GitHub")
         \/ LET got == [me EXCEPT !.calls = Append(@, Call("get_file_content", TRUE)),
                                  !.sha = MainVersion]
            IN  \E ok \in StoreOutcomes :
                  IF ok
                  THEN /\ events' = AddEvent(events, me.iid, e)
                       /\ Continue(s, [got EXCEPT !.pc = "ai", !.added = Append(@, e)])
                       /\ UNCHANGED issues
                  ELSE Unexpected(s, got)
      /\ UNCHANGED gh

\* what the chat completion can come back with: nothing, text without a code
\* block, an answer with a fenced code block; or the call raises
AiOutcomes == {"empty", "prose", "fenced", "error"}

\* ai_client.py 147-182, _parse_ai_response: the code of the first fenced
\* block, or the original file content when the answer has no such block
ParseAiResponse(out) == IF out = "fenced" THEN "fixed" ELSE "original"

\* ai_client.py 53-99, generate_fix: an exception of the call or an empty
\* answer is reported as success False; any other answer is parsed and
\* reported as success True
GenerateFix(out) ==
  IF out \in {"error", "empty"}
  THEN [success |-> FALSE, fixed_content |-> ""]
  ELSE [success |-> TRUE, fixed_content |-> ParseAiResponse(out)]

\* lines 150-260: what follows the await of generate_fix, up to the one commit
\* that ends the attempt.  ai_client.generate_fix never raises, it reports
\* success or not (159-169); then create_branch and update_file with the token
\* of step 1 (174-201); then create_pull_request, PR_OPEN with pr_url and
\* pr_branch, PR_CREATED event and commit (203-248).  A step that fails
\* reverts; whatever is raised inside the try at 224, the gateway's error or
\* that commit's, reaches the handler at 250.
FixGenerate(s) ==
  \E out \in AiOutcomes :
  LET me == [inv[s] EXCEPT !.ai = out]
      ai_result == GenerateFix(out)
      k == issues[me.iid].key
      url == PrUrl(k, gh[k].opened + 1)
      e == Event("PR_CREATED", url)
      branchMsg == "Failed to create branch or commit"
      prMsg == "Failed to create pull request"
      generated == [me EXCEPT !.calls = Append(@, Call("generate_fix", TRUE))]
      branched == [generated EXCEPT !.calls = Append(@, Call("create_branch", TRUE))]
      updated == [branched EXCEPT !.calls = Append(@, Call("update_file", TRUE))]
      opened == [updated EXCEPT !.calls = Append(@, Call("create_pull_request", TRUE))]
      onBranch == [CreateBranch(gh[k]) EXCEPT !.branch = "committed"]
  IN  /\ me.op = "fix" /\ me.pc = "ai"
      /\ \/ /\ ~ai_result.success
            /\ Revert(s, [me EXCEPT !.calls = Append(@, Call("generate_fix", FALSE))],
                      "AI failed to generate fix")
            /\ UNCHANGED gh
         \/ /\ ai_result.success
            /\ Revert(s, [generated EXCEPT
                            !.calls = Append(@, Call("create_branch", FALSE))], branchMsg)
            /\ UNCHANGED gh
         \/ /\ ai_result.success
            /\ Revert(s, [branched EXCEPT
                            !.calls = Append(@, Call("update_file", FALSE)),
                            !.stale = ~UpdateFileAccepted(CreateBranch(gh[k]), me.sha)],
                      branchMsg)
            /\ gh' = [gh EXCEPT ![k] = CreateBranch(@)]
         \/ /\ ai_result.success
            /\ UpdateFileAccepted(CreateBranch(gh[k]), me.sha)
            /\ \/ /\ Revert(s, [updated EXCEPT
                                  !.calls = Append(@, Call("create_pull_request", FALSE))],
                            prMsg)
                  /\ gh' = [gh EXCEPT ![k] = onBranch]
               \/ /\ CreatePullAccepted(onBranch)
                  /\ gh' = [gh EXCEPT ![k] = [onBranch EXCEPT !.pr = "open",
                                                              !.opened = @ + 1]]
                  /\ \E ok \in StoreOutcomes :
                       IF ok
                       THEN /\ issues' = OpenPr(issues, me.iid, url, BranchName(k))
                            /\ events' = AddEvent(events, me.iid, e)
                            /\ Finish(s, [opened EXCEPT !.added = Append(@, e)],
                                      Return(TRUE, "Fix applied and PR created", url))
                       ELSE Revert(s, [opened EXCEPT !.fault = TRUE], prMsg)

\* ---------------------------------------------------------------- merge sweep
\* functions of the gateways declared "async def": the only ones an await
\* expression accepts the result of
CoroutineFunctions == {"get_issues", "generate_fix"}

\* await f(...): a result that is no awaitable raises TypeError
Awaitable(f) == f \in CoroutineFunctions

\* Issue.<a> in a query: an attribute the class does not map raises
\* AttributeError
Mapped(a) == a \in IssueColumns

\* pr.merged as GitHub reports it for the pull request behind a pr_url
ReportedMerged(row) == gh[row.key].pr = "merged"

\* lines 281-284: Issue.pr_url.isnot(None), Issue.pr_merged != 1
Selected(rows) == {i \in 1..Len(rows) : rows[i].pr_url # None /\ rows[i].pr_merged # 1}

\* lines 289-315 for one selected issue: the status call raised (raised), or
\* its result could not be awaited, or the pull request is not merged: the
\* issue is left alone; otherwise it is marked merged and CLOSED
Reconcile(row, raised) ==
  IF ~raised /\ Awaitable("get_pr_status") /\ ReportedMerged(row)
  THEN [row EXCEPT !.pr_merged = 1, !.status = "CLOSED"]
  ELSE row

\* a sweep that closes again whatever has a pr_url
UpdatePrMergeStatusAll(s) ==
  /\ Lowest(s)
  /\ LET sel == {i \in 1..Len(issues) : issues[i].pr_url # None}
     IN  /\ issues' = [i \in 1..Len(issues) |->
                         IF i \in sel THEN [issues[i] EXCEPT !.status = "CLOSED"]
                         ELSE issues[i]]
         /\ events' = [i \in 1..Len(events) |->
                         IF i \in sel
                         THEN Append(events[i], Event("STATUS_UPDATED", issues[i].pr_url))
                         ELSE events[i]]
         /\ Finish(s, [Idle EXCEPT !.op = "merge"],
                   Return(TRUE, "merge", <<Cardinality(sel)>>))
  /\ UNCHANGED gh

\* lines 279-324 as a whole: the function has no point of suspension before
\* its commit.  errs are the selected issues whose status call raises.
UpdatePrMergeStatus(s) ==
  /\ Lowest(s)
  /\ LET me == [Idle EXCEPT !.op = "merge"]
     IN  IF ~(Mapped("pr_url") /\ Mapped("pr_merged"))
         THEN /\ Finish(s, me, Return(FALSE, "merge", <<0>>))
              /\ UNCHANGED <<issues, events>>
         ELSE \E errs \in SUBSET Selected(issues) :
                LET sel == Selected(issues)
                    after == [i \in 1..Len(issues) |->
                                IF i \in sel THEN Reconcile(issues[i], i \in errs)
                                ELSE issues[i]]
                    moved == {i \in sel : after[i] # issues[i]}
                    e(i) == Event("STATUS_UPDATED", issues[i].pr_url)
                IN  /\ issues' = after
                    /\ events' = [i \in 1..Len(events) |->
                                    IF i \in moved THEN Append(events[i], e(i))
                                    ELSE events[i]]
                    /\ Finish(s, [me EXCEPT !.calls =
                                     [j \in 1..Cardinality(sel) |->
                                        Call("get_pr_status", TRUE)]],
                              Return(TRUE, "merge", <<Cardinality(moved)>>))
  /\ UNCHANGED gh

\* ---------------------------------------------------------------- metrics
\* schemas.py, MetricsSummary: the fields without a default
MetricsRequired ==
  {"total_issues", "new_issues", "fixing_issues", "pr_open_issues",
   "ci_passed_issues", "ci_failed_issues", "closed_issues", "total_prs_created",
   "merged_prs", "rejected_prs", "success_rate"}

\* api.py 162-172: the keyword arguments get_metrics_summary passes
MetricsPassed ==
  {"total_issues", "new_issues", "fixing_issues", "pr_open_issues",
   "ci_passed_issues", "ci_failed_issues", "closed_issues", "total_prs_created",
   "success_rate"}

\* line 160 and round(success_rate, 2): merged / total * 100 in hundredths of a
\* percent, rounded to the nearest, 0 when no pull request was created
SuccessRate(merged, total) ==
  IF total > 0 THEN (2 * merged * 10000 + total) \div (2 * total) ELSE 0

\* the rate of the table as the claim defines it
RateOf(rows) ==
  SuccessRate(Cardinality({i \in 1..Len(rows) : rows[i].pr_merged = 1}),
              Cardinality({i \in 1..Len(rows) : rows[i].pr_url # None}))

\* api.py 134-172, get_metrics_summary: the counts (the one of merged pull
\* requests filters on Issue.pr_merged), the rate, and the construction of
\* MetricsSummary, which pydantic refuses when a required field is missing
MetricsSummary(rows) ==
  IF ~Mapped("pr_merged") THEN Raise("AttributeError")
  ELSE IF ~(MetricsRequired \subseteq MetricsPassed) THEN Raise("ValidationError")
  ELSE Return(TRUE, "metrics", <<RateOf(rows)>>)

\* GET /metrics/summary in session s
GetMetricsSummary(s) ==
  /\ Lowest(s)
  /\ Finish(s, [Idle EXCEPT !.op = "metrics"], MetricsSummary(issues))
  /\ UNCHANGED <<issues, events, gh>>

\* ---------------------------------------------------------------- environment
\* a maintainer merges the open pull request of key k on GitHub
GhMerge(k) ==
  /\ gh[k].pr = "open"
  /\ gh' = [gh EXCEPT ![k].pr = "merged"]
  /\ ret' = Idle
  /\ UNCHANGED <<issues, events, inv>>

\* ---------------------------------------------------------------- poller
\* settings.auto_fix is False (config default): lifespan creates no task
PollerOff == [phase |-> "off", todo |-> <<>>, limit |-> 0]

\* the smallest of a set of numbers
Min(S) == CHOOSE x \in S : \A y \in S : x <= y

\* line 23: .limit(10)
FixBatchLimit == 10

\* the limit at the scale of the model: the poller of a behaviour takes one
\* issue per sweep, or two
FixBatchLimits == 1..Min({FixBatchLimit, MaxFixBatch})

\* line 55: the task at the top of its loop, about to await sync_issues()
PollerStart(p) == [p EXCEPT !.phase = "sync", !.todo = <<>>]

\* line 74: await asyncio.sleep(settings.poll_interval_seconds)
Sleeping(p) == [p EXCEPT !.phase = "sleep", !.todo = <<>>]

\* a loop that an exception of a cycle ends
AfterRaiseCrash(p) == [p EXCEPT !.phase = "crashed", !.todo = <<>>]

\* a loop that logs the exception of sync and goes on with the cycle
AfterRaiseGoesOn(p) == [p EXCEPT !.phase = "merge", !.todo = <<>>]

\* lines 69-70: except Exception: the error is logged and the loop goes on to
\* the sleep of line 74
AfterRaise(p) == Sleeping(p)

\* the ids of the rows with status NEW
NewIds(rows) == {i \in 1..Len(rows) : rows[i].status = "NEW"}

\* the attempts the logs have room for, three events each
Room(logs) ==
  IF TotalLen(logs) >= MaxEvents THEN 0 ELSE (MaxEvents - TotalLen(logs) + 2) \div 3

\* a sweep that takes every NEW issue
SweepSizeAll(rows, logs, limit) == Cardinality(NewIds(rows))

\* how many issues a sweep takes: the NEW ones, limit at most (and, in the
\* model, no more than the logs have room for)
SweepSize(rows, logs, limit) == Min({Cardinality(NewIds(rows)), limit, Room(logs)})

\* lines 21-23: the lists the query of fix_issues can return.  It has no
\* ORDER BY: which NEW issues it returns, and in which order, is up to the
\* database.
Selections(rows, logs, limit) ==
  {q \in SeqsUpTo(NewIds(rows), Cardinality(NewIds(rows))) :
     /\ Len(q) = SweepSize(rows, logs, limit)
     /\ \A a, b \in 1..Len(q) : q[a] = q[b] => a = b}

\* a sweep that goes back to the top of the loop without the sleep
AfterAttemptNoSleep(p, todo) ==
  IF todo = <<>> THEN PollerStart(p) ELSE [p EXCEPT !.phase = "fix", !.todo = todo]

\* lines 27-39: on to the next issue of the list after the pause of line 39,
\* or out of fix_issues to the sleep of line 74
AfterAttempt(p, todo) ==
  IF todo = <<>> THEN Sleeping(p) ELSE [p EXCEPT !.phase = "fix", !.todo = todo]

\* line 60: await sync_issues(); an exception leaves the try block
PollSyncFrom(B) ==
  /\ poller.phase = "sync"
  /\ SyncFetch(1, B) \/ SyncCommit(1)
  /\ poller' = IF ret'.op # "sync" THEN poller
               ELSE IF ret'.res.kind = "raise" THEN AfterRaise(poller)
               ELSE [poller EXCEPT !.phase = "merge"]

PollSync == PollSyncFrom(Batches)

\* lines 63-67: await update_pr_statuses(), then fix_issues() up to its query
\* (lines 20-25), which may raise; the poller only runs with auto_fix set
PollMerge ==
  /\ poller.phase = "merge"
  /\ UpdatePrMergeStatus(1)
  /\ \/ poller' = AfterRaise(poller)
     \/ \E todo \in Selections(issues', events', poller.limit) :
          poller' = AfterAttempt(poller, todo)

\* a sweep that gives up at the first attempt that fails
PollFixStopsOnFailure ==
  /\ poller.phase = "fix"
  /\ \/ FixStart(1, Head(poller.todo))
     \/ FixMark(1)
     \/ FixReadFile(1)
     \/ FixGenerate(1)
  /\ poller' = IF ret'.op # "fix" THEN poller
               ELSE IF ret'.res.success THEN AfterAttempt(poller, Tail(poller.todo))
               ELSE Sleeping(poller)

\* lines 27-39: attempt_fix for the next issue of the list, step by step;
\* whatever the attempt returns or raises, the sweep goes on.  The session is
\* the one of app.database; the query of attempt_fix (line 105) reads the
\* committed row.
PollFix ==
  /\ poller.phase = "fix"
  /\ \/ FixStart(1, Head(poller.todo))
     \/ FixMark(1)
     \/ FixReadFile(1)
     \/ FixGenerate(1)
  /\ poller' = IF ret'.op = "fix" THEN AfterAttempt(poller, Tail(poller.todo))
               ELSE poller

\* line 74 returns: the next cycle starts
PollWake ==
  /\ poller.phase = "sleep"
  /\ poller' = PollerStart(poller)
  /\ ret' = Idle
  /\ UNCHANGED <<issues, events, gh, inv>>

\* main.py, lifespan: background_task.cancel() at shutdown.  CancelledError is
\* raised in the task at the await it is suspended in: the sleep of line 74,
\* the analyzer call of sync, the pause of line 39, or generate_fix inside
\* attempt_fix.  It is no Exception, so no handler of attempt_fix or of the
\* loop catches it: the invocation ends where it stands.
Cancel ==
  /\ \/ poller.phase = "sleep"
     \/ poller.phase = "sync" /\ Free(1)
     \/ poller.phase = "fix" /\ Free(1) /\ ret.op = "fix"
     \/ poller.phase = "fix" /\ inv[1].op = "fix" /\ inv[1].pc = "ai"
  /\ poller' = [poller EXCEPT !.phase = "cancelled", !.todo = <<>>]
  /\ inv' = [inv EXCEPT ![1] = Idle]
  /\ ret' = IF Free(1) THEN Idle
            ELSE [inv[1] EXCEPT !.pc = "done", !.sha = 0,
                                !.res = Raise("CancelledError")]
  /\ UNCHANGED <<issues, events, gh>>

\* ---------------------------------------------------------------- behaviours
\* a fresh deployment: empty tables, no fix branch, no session open
Init ==
  /\ issues = <<>>
  /\ events = <<>>
  /\ gh = [k \in Keys |-> NoRepoState]
  /\ inv = [s \in Slots |-> Idle]
  /\ ret = Idle
  /\ poller = PollerOff

Step(s, B) ==
  \/ SyncFetch(s, B)
  \/ SyncCommit(s)
  \/ \E i \in 1..(Len(issues) + 1) : FixStart(s, i)
  \/ FixMark(s)
  \/ FixReadFile(s)
  \/ FixGenerate(s)
  \/ UpdatePrMergeStatus(s)

Next ==
  \/ (\E s \in Slots : Step(s, RaceBatches)) /\ UNCHANGED poller
  \/ (\E k \in Keys : GhMerge(k)) /\ UNCHANGED poller

\* any interleaving of the sessions
Spec == Init /\ [][Next]_vars

\* one session: operations run one after another, each to its end
NextSeq ==
  \/ Step(1, Batches) /\ UNCHANGED poller
  \/ (\E k \in Keys : GhMerge(k)) /\ UNCHANGED poller

SpecSeq == Init /\ [][NextSeq]_vars

\* one session serving the routes of the dashboard as well
NextApi ==
  \/ Step(1, RaceBatches) /\ UNCHANGED poller
  \/ GetMetricsSummary(1) /\ UNCHANGED poller
  \/ (\E k \in Keys : GhMerge(k)) /\ UNCHANGED poller

SpecApi == Init /\ [][NextApi]_vars

\* one session that syncs a project of any size, again and again
NextPaged ==
  \/ SyncFetch(1, PagedBatches) /\ UNCHANGED poller
  \/ SyncCommit(1) /\ UNCHANGED poller

SpecPaged == Init /\ [][NextPaged]_vars

\* a table another writer has filled: one issue in any status of the
\* enumeration (CI_PASSED and CI_FAILED are kept for a CI integration), with
\* the pull request fields of an issue that went past FIXING; column pr_merged
\* of a CLOSED issue holds 0 or 1
InitAny ==
  \E st \in IssueStatus, mg \in {0, 1} :
    LET past == st \notin {"NEW", "FIXING"}
    IN  /\ mg = 1 => st = "CLOSED"
        /\ issues = << [NewIssue(1, 1) EXCEPT
                          !.status = st,
                          !.pr_url = IF past THEN PrUrl(1, 1) ELSE None,
                          !.pr_branch = IF past THEN BranchName(1) ELSE None,
                          !.pr_merged = mg] >>
        /\ events = << <<Event("ISSUE_DETECTED", 1)>> >>
        /\ gh = [k \in Keys |->
                   IF k = 1 /\ past
                   THEN [branch |-> "committed", pr |-> "open", opened |-> 1]
                   ELSE NoRepoState]
        /\ inv = [s \in Slots |-> Idle]
        /\ ret = Idle
        /\ poller = PollerOff

SpecAny == InitAny /\ [][NextSeq]_vars

\* a deployment with auto_fix set: lifespan has created the poller task
InitLoop ==
  /\ issues = <<>>
  /\ events = <<>>
  /\ gh = [k \in Keys |-> NoRepoState]
  /\ inv = [s \in Slots |-> Idle]
  /\ ret = Idle
  /\ \E n \in FixBatchLimits :
       poller = [phase |-> "sync", todo |-> <<>>, limit |-> n]

\* the steps of the poller task
Poll == PollSync \/ PollMerge \/ PollFix \/ PollWake

NextLoop ==
  \/ PollSync
  \/ PollMerge
  \/ PollFix
  \/ PollWake
  \/ Cancel
  \/ (\E k \in Keys : GhMerge(k)) /\ UNCHANGED poller

\* the event loop keeps running the task while it is not cancelled: every
\* await of the task returns or raises
SpecLoop == InitLoop /\ [][NextLoop]_vars /\ WF_vars(Poll)

\* POST /api/issues/{issue_id}/fix while the poller runs: the request has a
\* session of its own, the second one
ApiFix ==
  /\ \/ \E i \in IssueIds : FixStartOn(2, i)
     \/ FixMark(2)
     \/ FixReadFile(2)
     \/ FixGenerate(2)
  /\ UNCHANGED poller

NextLoopApi ==
  \/ PollSyncFrom(SteadyBatches)
  \/ PollMerge
  \/ PollFix
  \/ PollWake
  \/ Cancel
  \/ (\E k \in Keys : GhMerge(k)) /\ UNCHANGED poller
  \/ ApiFix

\* the poller and the requests of the API side by side, on a project whose
\* findings do not change
SpecLoopApi == InitLoop /\ [][NextLoopApi]_vars

\* the same table under any interleaving of the sessions
SpecAnyRace == InitAny /\ [][Next]_vars

\* ---------------------------------------------------------------- properties
\* the last element of a sequence that is not empty
Last(q) == q[Len(q)]

\* q ends with tail
EndsWith(q, tail) ==
  /\ Len(tail) <= Len(q)
  /\ \A j \in 1..Len(tail) : q[Len(q) - Len(tail) + j] = tail[j]

\* the events of type t in a sequence of events
OfType(q, t) == {j \in 1..Len(q) : q[j].event_type = t}

\* in this step op is called on issue i: an invocation starts in a free
\* session, or starts and ends at once
Called(op, i) ==
  \/ \E s \in Slots : inv[s].op = "idle" /\ inv'[s].op = op /\ inv'[s].iid = i
  \/ inv' = inv /\ ret'.op = op /\ ret'.iid = i

\* the attempt that just ended made at least one gateway call, the last one
\* failed, and the database accepted every commit
GatewayFailed == ret.op = "fix" /\ ret.calls # <<>> /\ ~Last(ret.calls).ok /\ ~ret.fault

\* the attempt that just ended made gateway calls, none failed, and the
\* database accepted every commit
AllSucceeded ==
  /\ ret.op = "fix" /\ ret.calls # <<>> /\ ~ret.fault
  /\ \A j \in 1..Len(ret.calls) : ret.calls[j].ok

\* C1: attempt_fix called on an existing Issue whose status is not NEW returns
\* a failure naming that status, makes no gateway call and leaves the Issue's
\* fields and its Events as they were.
C1_RejectsNonNew ==
  [][\A i \in IssueIds :
       (issues[i].status # "NEW" /\ Called("fix", i)) =>
         /\ ret'.res = Return(FALSE, "Issue already in status", <<issues[i].status>>)
         /\ ret'.calls = <<>>
         /\ UNCHANGED <<issues, events, gh, inv>>]_vars

C1_Witness ==
  /\ ret.op = "fix" /\ ret.res.msg = "Issue already in status"
  /\ ret.res.val = <<"CI_FAILED">> /\ issues[ret.iid].status = "CI_FAILED"

\* C2: when a gateway call of an attempt on a NEW Issue fails (file read,
\* generation, branch or commit, pull request) and the store accepts the
\* attempt's commits, the attempt returns failure, the Issue is NEW again, the
\* attempt appended exactly one ERROR Event, and pr_url and pr_branch are
\* unset.
C2_FailureRevertsToNew ==
  GatewayFailed =>
    /\ ret.res.kind = "return" /\ ~ret.res.success
    /\ issues[ret.iid].status = "NEW"
    /\ Cardinality(OfType(ret.added, "ERROR")) = 1
    /\ EndsWith(events[ret.iid], ret.added)
    /\ issues[ret.iid].pr_url = None /\ issues[ret.iid].pr_branch = None

C2_Witness ==
  /\ GatewayFailed /\ Last(ret.calls).name = "create_pull_request"
  /\ issues[ret.iid].status = "NEW"

\* C3: when every gateway call of an attempt on a NEW Issue succeeds (and the
\* store accepts the commits), the attempt returns success with the PR
\* reference, the Issue is PR_OPEN with pr_url and pr_branch set, and the
\* attempt appended STATUS_UPDATED (FIXING), AI_CALLED, PR_CREATED, in this
\* order and nothing else.
C3_SuccessPath ==
  AllSucceeded =>
    /\ ret.res.kind = "return" /\ ret.res.success
    /\ ret.res.val = issues[ret.iid].pr_url
    /\ issues[ret.iid].status = "PR_OPEN"
    /\ issues[ret.iid].pr_url # None /\ issues[ret.iid].pr_branch # None
    /\ ret.added = << Event("STATUS_UPDATED", "FIXING"),
                      Event("AI_CALLED", "Requesting AI to generate fix"),
                      Event("PR_CREATED", issues[ret.iid].pr_url) >>
    /\ EndsWith(events[ret.iid], ret.added)

C3_Witness ==
  /\ AllSucceeded /\ ret.res.success
  /\ Last(ret.calls).name = "create_pull_request"

\* C4: an attempt that committed FIXING and then returns failure, for whatever
\* reason, leaves the Issue's committed status NEW.
C4_FailureNeverLeavesFixing ==
  (ret.op = "fix" /\ ret.added # <<>> /\ ~ret.res.success) =>
    issues[ret.iid].status = "NEW"

\* C5: no two invocations of attempt_fix are past the status check for the
\* same Issue at the same time.
C5_OneAttemptInFlight ==
  \A s, u \in Slots :
    (s # u /\ inv[s].op = "fix" /\ inv[u].op = "fix") => inv[s].iid # inv[u].iid


\* the keys of the records of a response
KeysOf(batch) == {batch[j] : j \in 1..Len(batch)}

\* the keys of the rows of the table
Stored(rows) == {rows[i].key : i \in 1..Len(rows)}

\* a sync ends in this step
SyncEnds == ret'.op = "sync"

\* C6: a sync that runs right after a sync that committed, on a response
\* identical to that one's, returns 0 and leaves the set of Issues and the set
\* of Events unchanged.
C6_SecondSyncCreatesNothing ==
  [][(SyncEnds /\ ret'.again /\ ~ret'.fault) =>
       /\ ret'.res = Return(TRUE, "synced", <<0>>)
       /\ UNCHANGED <<issues, events>>]_vars

C6_Witness ==
  /\ ret.op = "sync" /\ ret.again /\ ret.batch # <<>>
  /\ ret.res = Return(TRUE, "synced", <<0>>)
  /\ KeysOf(ret.batch) \subseteq Stored(issues)

\* C7: a sync that returns has created, for each distinct key of the response
\* that was not stored, exactly one Issue with status NEW and exactly one
\* ISSUE_DETECTED Event; it changed no field and no Event of an Issue that
\* existed; the count it returns is the number of Issues created.
C7_SyncCreatesOnePerNewKey ==
  [][(SyncEnds /\ ret'.res.kind = "return") =>
       LET fresh == KeysOf(ret'.batch) \ Stored(issues)
           created == (Len(issues) + 1)..Len(issues')
       IN  /\ Len(issues') >= Len(issues) /\ Len(events') = Len(issues')
           /\ \A i \in IssueIds : issues'[i] = issues[i] /\ events'[i] = events[i]
           /\ \A k \in fresh :
                Cardinality({i \in created : issues'[i].key = k}) = 1
           /\ \A i \in created :
                /\ issues'[i].key \in fresh
                /\ issues'[i].status = "NEW"
                /\ issues'[i].pr_url = None /\ issues'[i].pr_branch = None
                /\ Len(events'[i]) = 1
                /\ events'[i][1].event_type = "ISSUE_DETECTED"
           /\ ret'.res.val = <<Cardinality(created)>>]_vars

\* a response with a repeated key and one sync that stored it once, next to
\* an Issue that existed before
C7_Witness ==
  /\ ret.op = "sync" /\ ret.res = Return(TRUE, "synced", <<1>>)
  /\ Len(ret.batch) = 2 /\ ret.batch[1] = ret.batch[2]
  /\ Len(issues) = 2

\* C8: a sync whose analyzer call fails, or that meets a store error at a
\* flush or at the commit, raises to its caller and leaves the store as it was
\* before the call.
C8_SyncAllOrNothing ==
  [][(SyncEnds /\ (ret'.fault \/ ~ret'.calls[1].ok)) =>
       /\ ret'.res.kind = "raise"
       /\ UNCHANGED <<issues, events>>]_vars

\* a store error at the commit of a batch of two new rows
C8_Witness ==
  /\ ret.op = "sync" /\ ret.fault /\ ret.res = Raise("commit")
  /\ ret.count = 2 /\ KeysOf(ret.batch) \cap Stored(issues) = {}

\* C9: no two Issues share a sonarqube_issue_key, whatever the interleaving of
\* the sessions; an insert that would duplicate a key is rejected.
C9_KeysUnique ==
  \A i, j \in IssueIds : issues[i].key = issues[j].key => i = j

\* a sync lost the race for a key: the index rejected its commit
C9_Witness ==
  /\ ret.op = "sync" /\ ~ret.fault /\ ret.res = Raise("commit")
  /\ KeysOf(ret.batch) \subseteq Stored(issues)

\* C10: a sweep of update_pr_merge_status marks every Issue with a pr_url, not
\* yet marked merged, whose pull request GitHub reports as merged: pr_merged 1,
\* status CLOSED, one STATUS_UPDATED Event appended, and returns their number.
C10_SweepClosesMerged ==
  [][ret'.op = "merge" =>
       LET due == {i \in Selected(issues) : ReportedMerged(issues[i])}
       IN  /\ \A i \in due :
                /\ issues'[i].pr_merged = 1
                /\ issues'[i].status = "CLOSED"
                /\ events'[i] = Append(events[i], Last(events'[i]))
                /\ Last(events'[i]).event_type = "STATUS_UPDATED"
           /\ ret'.res.val = <<Cardinality(due)>>]_vars


\* the Issues a sweep has nothing left to do for
MergedAndClosed(rows) ==
  {i \in 1..Len(rows) : rows[i].pr_merged = 1 /\ rows[i].status = "CLOSED"}

\* C11: a reconciliation sweep changes no field of an Issue that is merged and
\* CLOSED, appends no Event for it and does not count it, also while GitHub
\* keeps reporting its pull request as merged.
C11_SweepLeavesMergedAlone ==
  [][ret'.op = "merge" =>
       /\ \A i \in MergedAndClosed(issues) :
            issues'[i] = issues[i] /\ events'[i] = events[i]
       /\ ret'.res.val[1] <= Len(issues) - Cardinality(MergedAndClosed(issues))]_vars

C11_Witness ==
  /\ ret.op = "merge" /\ ret.res.kind = "return"
  /\ MergedAndClosed(issues) # {}
  /\ \A i \in MergedAndClosed(issues) : ReportedMerged(issues[i])

\* C12: once the committed status of an Issue is CLOSED, no step of sync,
\* attempt_fix or the reconciliation sweep, in any interleaving, changes it.
C12_ClosedIsTerminal ==
  [][\A i \in IssueIds :
       issues[i].status = "CLOSED" => issues'[i].status = "CLOSED"]_vars

\* a closed Issue that a fix attempt was called on and rejected
C12_Witness ==
  /\ ret.op = "fix" /\ ret.res.val = <<"CLOSED">>
  /\ issues[ret.iid].status = "CLOSED"


\* the Issues a sweep is due to close: selected, and GitHub reports the pull
\* request as merged
Due(rows) == {i \in Selected(rows) : ReportedMerged(rows[i])}

C14_SweepSkipsOnlyTheFailed ==
  [][(ret'.op = "merge" /\ Cardinality(Due(issues)) >= 2) =>
       Cardinality({i \in Due(issues) : issues'[i] = issues[i]}) <= 1]_vars


\* C15: in every committed state pr_url and pr_branch of an Issue are both set
\* or both unset; an attempt that created the branch and failed afterwards
\* leaves pr_branch unset.
C15_PrFieldsTogether ==
  \A i \in IssueIds : (issues[i].pr_url = None) <=> (issues[i].pr_branch = None)

\* an attempt failed after its branch was created on GitHub
C15_Witness ==
  /\ ret.op = "fix" /\ ~ret.res.success /\ ret.calls # <<>>
  /\ Last(ret.calls).name \in {"update_file", "create_pull_request"}
  /\ gh[issues[ret.iid].key].branch # "none"
  /\ issues[ret.iid].pr_branch = None /\ issues[ret.iid].pr_url = None

\* the changes of status the pipeline allows
AllowedMoves ==
  { <<"NEW", "FIXING">>, <<"FIXING", "NEW">>, <<"FIXING", "PR_OPEN">>,
    <<"PR_OPEN", "CLOSED">> }

\* C16: every change of the committed status of an Issue, in any interleaving
\* of the sessions, is NEW to FIXING, FIXING to NEW, FIXING to PR_OPEN or
\* PR_OPEN to CLOSED.
C16_OnlyAllowedMoves ==
  [][\A i \in IssueIds :
       issues'[i].status # issues[i].status =>
         <<issues[i].status, issues'[i].status>> \in AllowedMoves]_vars

\* C17: no step removes or changes a committed Event: the log of every Issue
\* only grows, at its end.
C17_LogAppendOnly ==
  [][\A i \in IssueIds :
       /\ Len(events'[i]) >= Len(events[i])
       /\ \A j \in 1..Len(events[i]) :
            /\ events'[i][j].event_type = events[i][j].event_type
            /\ events'[i][j].message = events[i][j].message]_vars

\* an attempt went through a rollback after it had committed events
C17_Witness ==
  /\ ret.op = "fix" /\ ret.fault /\ ret.res.msg = "Unexpected error"
  /\ Len(ret.added) >= 2 /\ EndsWith(events[ret.iid], ret.added)


\* C20: after a sync that returned, every finding the analyzer holds for the
\* project has an Issue in the store, also the findings beyond the first page.
C20_SyncFetchesEverything ==
  (ret.op = "sync" /\ ret.res.kind = "return") =>
    KeysOf(ret.batch \o ret.rest) \subseteq Stored(issues)


\* C18: cancelling the poller interrupts no fix attempt in the middle: an
\* attempt the cancellation ended has not left its Issue in FIXING.
C18_CancelLeavesNoFixing ==
  (poller.phase = "cancelled" /\ ret.op = "fix" /\ ret.res = Raise("CancelledError")) =>
    issues[ret.iid].status # "FIXING"

\* C19: an exception raised in a cycle does not end the loop: as long as the
\* task is not cancelled it comes back to the top of its loop again and again.
C19_LoopSurvivesFailures ==
  []<>(poller.phase \in {"sync", "cancelled"})

\* the sync of a cycle raised and the loop went on to its sleep
C19_Witness ==
  /\ poller.phase = "sleep"
  /\ ret.op = "sync" /\ ret.res.kind = "raise"


\* C21: the route trigger_fix answers 404, with no attempt made, when the Issue
\* does not exist; otherwise it answers a payload whose success and message
\* are those attempt_fix returned, whatever the outcome of the attempt.
C21_TriggerFixAlwaysAnswers ==
  ret.op = "fix" =>
    IF ret.iid \in IssueIds
    THEN /\ ret.http.code = 200
         /\ ret.res.kind = "return"
         /\ ret.http.success = ret.res.success
         /\ ret.http.message = ret.res.msg
    ELSE /\ ret.http.code = 404
         /\ ret.calls = <<>> /\ ret.added = <<>>

\* the attempt ended in the outermost handler and the route still answered
C21_Witness ==
  /\ ret.op = "fix" /\ ret.iid \in IssueIds
  /\ ret.http = [code |-> 200, success |-> FALSE, message |-> "Unexpected error"]


\* C22: the metrics summary is answered, with success_rate equal to
\* merged_prs / total_prs_created * 100, or 0.0 when no pull request was
\* created.
C22_MetricsSuccessRate ==
  ret.op = "metrics" =>
    /\ ret.res.kind = "return"
    /\ ret.res.val = <<RateOf(issues)>>


\* the gateway calls of an attempt, in the order of the code
CallOrder ==
  << "get_file_content", "generate_fix", "create_branch", "update_file",
     "create_pull_request" >>

\* calls follows the order, and every call but the last one succeeded
Gated(calls) ==
  /\ Len(calls) <= Len(CallOrder)
  /\ \A j \in 1..Len(calls) :
       /\ calls[j].name = CallOrder[j]
       /\ j < Len(calls) => calls[j].ok

\* the call that ended the attempt by failing, "" when none did
FailedAt(calls) ==
  IF calls # <<>> /\ ~Last(calls).ok THEN Last(calls).name ELSE ""

\* C23: the calls of a fix attempt happen in the order read file, generate,
\* create branch, commit file, open pull request, each only after the one
\* before succeeded: no generation and no AI_CALLED Event after a failed read,
\* no branch or commit after a failed generation, no pull request after a
\* failed branch or commit.
C23_StepsGated ==
  [][ret'.op = "fix" =>
       /\ Gated(ret'.calls)
       /\ FailedAt(ret'.calls) = "get_file_content" =>
            OfType(ret'.added, "AI_CALLED") = {}
       /\ FailedAt(ret'.calls) \in {"get_file_content", "generate_fix"} => gh' = gh
       /\ FailedAt(ret'.calls) \in {"create_branch", "update_file"} =>
            \A k \in Keys : gh'[k].pr = gh[k].pr /\ gh'[k].opened = gh[k].opened]_vars

\* an attempt stopped at the creation of the branch
C23_Witness ==
  /\ ret.op = "fix" /\ FailedAt(ret.calls) = "create_branch"
  /\ Len(ret.calls) = 3


\* C24: when the model output is empty or holds no parseable fixed content,
\* the generator reports failure and the attempt reverts the Issue to NEW with
\* an ERROR Event, without branch, commit or pull request.
C24_UnparseableOutputReverts ==
  (ret.op = "fix" /\ ret.ai \in {"empty", "prose"}) =>
    /\ FailedAt(ret.calls) = "generate_fix"
    /\ ~ret.res.success
    /\ ret.fault \/ (issues[ret.iid].status = "NEW" /\ Last(ret.added).event_type = "ERROR")


\* C26: a retry after an attempt that committed the fix to the branch and
\* failed at the pull request reuses the branch and has its commit accepted:
\* no attempt has its commit refused for the version token it read in step 1.
C26_RetryCommitAccepted ==
  (ret.op = "fix" /\ FailedAt(ret.calls) = "update_file") => ~ret.stale

\* the poller has an attempt on issue i under way, or one has just ended
Attempted(i) ==
  \/ inv[1].op = "fix" /\ inv[1].iid = i
  \/ ret.op = "fix" /\ ret.iid = i

\* C25: while the cycles of the poller go on and its sweeps keep making
\* attempts, every Issue in status NEW is eventually attempted, however many
\* other NEW Issues there are and however often they fail.
C25_EveryNewIssueAttempted ==
  \A i \in 1..NumKeys :
    ([]<>(poller.phase = "fix")) =>
      [](((i \in IssueIds) /\ issues[i].status = "NEW") => <>Attempted(i))

\* the moves of the poller from one operation of its cycle to the next
CycleMoves ==
  { <<"sync", "merge">>, <<"sync", "sleep">>, <<"merge", "fix">>,
    <<"merge", "sleep">>, <<"fix", "sleep">>, <<"sleep", "sync">> }

\* the operation the poller is in while it holds a session
OpOfPhase == [sync |-> "sync", merge |-> "merge", fix |-> "fix"]

\* C27: a cycle of the poller runs sync, then the merge reconciliation, then
\* the auto-fix sweep, each one started when the one before has ended, and
\* sleeps before the next cycle starts.
C27_CycleInOrder ==
  [][/\ inv'[1].op # "idle" =>
          /\ poller'.phase \in DOMAIN OpOfPhase
          /\ inv'[1].op = OpOfPhase[poller'.phase]
     /\ (poller'.phase # poller.phase /\ poller'.phase # "cancelled") =>
          /\ <<poller.phase, poller'.phase>> \in CycleMoves
          /\ inv'[1].op = "idle"
          /\ poller.phase \in DOMAIN OpOfPhase => ret'.op = OpOfPhase[poller.phase]
          /\ poller'.phase = "merge" => ret'.res.kind = "return"
          /\ poller'.phase = "fix" => ret'.res.kind = "return"]_vars

\* a cycle went through its three operations and is asleep
C27_Witness ==
  /\ poller.phase = "sleep"
  /\ ret.op = "fix"
  /\ \E i \in IssueIds : issues[i].status = "PR_OPEN"

\* C28: a sweep selects no more Issues than its limit, all of them NEW when
\* it selects them and no Issue twice; the poller starts an attempt only on
\* the first Issue left of that list, with no attempt of its own under way,
\* and drops that Issue from the list when the attempt ends.
C28_SweepBoundedSequential ==
  [][/\ (poller.phase = "merge" /\ poller'.phase = "fix") =>
          /\ Len(poller'.todo) <= poller.limit
          /\ poller.limit <= FixBatchLimit
          /\ \A a \in 1..Len(poller'.todo) :
               /\ poller'.todo[a] \in 1..Len(issues')
               /\ issues'[poller'.todo[a]].status = "NEW"
               /\ \A b \in 1..Len(poller'.todo) :
                    poller'.todo[a] = poller'.todo[b] => a = b
     /\ \A i \in 1..NumKeys :
          Called("fix", i) =>
            /\ poller.phase = "fix"
            /\ i = Head(poller.todo)
            /\ inv[1].op = "idle"
     /\ (poller.phase = "fix" /\ poller'.phase = "fix") =>
          poller'.todo = IF ret'.op = "fix" THEN Tail(poller.todo) ELSE poller.todo
     /\ (poller.phase = "fix" /\ poller'.phase = "sleep") =>
          (ret'.op = "fix" /\ Len(poller.todo) = 1)]_vars

\* the first attempt of a sweep of two has ended, the second is to come
C28_Witness ==
  /\ poller.phase = "fix"
  /\ poller.limit = 2
  /\ Len(poller.todo) = 1
  /\ ret.op = "fix"
  /\ ret.iid # Head(poller.todo)

\* the poller takes a step of its sweep with no attempt of its own under way:
\* it calls attempt_fix for the first Issue left of its list
SweepCalls ==
  /\ poller.phase = "fix" /\ inv[1].op = "idle"
  /\ inv'[1].op = "fix" \/ poller' # poller
  /\ poller'.phase # "cancelled"

\* an attempt of the poller ends in this step
SweepAttemptEnds ==
  /\ poller.phase = "fix" /\ poller' # poller
  /\ poller'.phase # "cancelled"

EventOfStatus ==
  ("FIXING" :> "STATUS_UPDATED") @@ ("NEW" :> "ERROR") @@
  ("PR_OPEN" :> "PR_CREATED") @@ ("CLOSED" :> "STATUS_UPDATED")

\* C30: a step that changes the committed status of an Issue appends, in the
\* same step, an Event to the log of that Issue: the one the code adds with
\* that status.
C30_StatusChangeLogged ==
  [][\A i \in IssueIds :
       issues'[i].status # issues[i].status =>
         /\ Len(events'[i]) = Len(events[i]) + 1
         /\ issues'[i].status \in DOMAIN EventOfStatus
         /\ Last(events'[i]).event_type = EventOfStatus[issues'[i].status]]_vars

\* an attempt failed at the pull request: its three status-changing commits
\* are in the log, in order
C30_Witness ==
  /\ ret.op = "fix" /\ FailedAt(ret.calls) = "create_pull_request"
  /\ issues[ret.iid].status = "NEW"
  /\ Len(ret.added) = 3
  /\ ret.added[1].event_type = "STATUS_UPDATED"
  /\ ret.added[3].event_type = "ERROR"
  /\ EndsWith(events[ret.iid], ret.added)

\* the events of q other than the record of a status change: those that can
\* stand for a gateway call (the request logged before the model is called
\* counted in)
CallEvents(q) == {j \in 1..Len(q) : q[j].event_type # "STATUS_UPDATED"}

\* C31: every gateway call of an attempt that returned, with success or with
\* failure, has an Event in the log of the Issue: an attempt whose commits
\* were all accepted has added at least as many such Events as it made calls.
C31_EveryOutcomeLogged ==
  (ret.op = "fix" /\ ~ret.fault) =>
    Cardinality(CallEvents(ret.added)) >= Len(ret.calls)

\* the Issues with a pull request that GitHub does not report as merged
NotMerged(rows) ==
  {i \in 1..Len(rows) : rows[i].pr_url # None /\ ~ReportedMerged(rows[i])}

\* C32: a reconciliation sweep changes no field of an Issue whose pull request
\* GitHub reports as not merged and appends no Event for it, whatever its
\* status (CLOSED with pr_merged 0 included), and does not count it.
C32_SweepLeavesUnmergedAlone ==
  [][ret'.op = "merge" =>
       /\ \A i \in NotMerged(issues) :
            issues'[i] = issues[i] /\ events'[i] = events[i]
       /\ ret'.res.val[1] <= Len(issues) - Cardinality(NotMerged(issues))]_vars

\* a sweep ran over a CLOSED Issue whose pull request was not merged
C32_Witness ==
  /\ ret.op = "merge" /\ ret.res.kind = "return"
  /\ \E i \in NotMerged(issues) :
       issues[i].status = "CLOSED" /\ issues[i].pr_merged = 0

\* C33: in every committed state an Issue has a pr_url exactly when its status
\* is PR_OPEN or CLOSED: no Issue in NEW or FIXING carries one, in any
\* interleaving of fix attempts and sweeps.
C33_PrUrlIffPastFixing ==
  \A i \in IssueIds :
    (issues[i].pr_url # None) <=> (issues[i].status \in {"PR_OPEN", "CLOSED"})

\* an invocation of attempt_fix for issue i is executing
InFlight(i) == \E s \in Slots : inv[s].op = "fix" /\ inv[s].iid = i

\* C34: the committed status of an Issue is FIXING only while an attempt for
\* it is executing: once the attempt has returned, raised or been cancelled,
\* the Issue is not FIXING.
C34_FixingOnlyInFlight ==
  \A i \in IssueIds : issues[i].status = "FIXING" => InFlight(i)

\* the pull requests GitHub has opened for issue i
PullsOpened(i) == gh[issues[i].key].opened

\* C35: over any sequence of attempts and retries GitHub opens at most one
\* pull request for an Issue, and a pull request it opened is the pr_url of
\* that Issue, with exactly one PR_CREATED Event in its log.
C35_OnePullRecorded ==
  \A i \in IssueIds :
    /\ PullsOpened(i) <= 1
    /\ Cardinality(OfType(events[i], "PR_CREATED")) = PullsOpened(i)
    /\ PullsOpened(i) = 1 => issues[i].pr_url = PrUrl(issues[i].key, 1)

\* C36: when the sync of a cycle raises, the loop goes to its sleep: the merge
\* reconciliation and the sweep run only in a cycle whose sync returned, and
\* no step of the loop up to there changes the status of an Issue.
C36_FailedSyncSkipsTheRest ==
  [][/\ (ret'.op = "sync" /\ ret'.res.kind = "raise") => poller'.phase = "sleep"
     /\ poller.phase \in {"sync", "sleep"} =>
          /\ \A i \in IssueIds : issues'[i].status = issues[i].status
          /\ poller'.phase # "fix"
          /\ poller'.phase = "merge" => (ret'.op = "sync" /\ ret'.res.kind = "return")
     /\ (ret'.op \in {"merge", "fix"} \/ inv'[1].op = "fix") =>
          poller.phase \in {"merge", "fix"}]_vars

\* the sync of a cycle raised while an Issue was NEW and another had its pull
\* request merged: the cycle left both to a later one
C36_Witness ==
  /\ poller.phase = "sleep"
  /\ ret.op = "sync" /\ ret.res.kind = "raise"
  /\ \E i \in IssueIds : issues[i].status = "NEW"
  /\ \E i \in IssueIds : issues[i].status = "PR_OPEN" /\ ReportedMerged(issues[i])

\* C37: in every reachable state every Issue has a log, with exactly one
\* ISSUE_DETECTED Event, the first of the log: whatever attempts and sweeps
\* added comes after it.
C37_DetectedOnceAndFirst ==
  /\ Len(events) = Len(issues)
  /\ \A i \in IssueIds : OfType(events[i], "ISSUE_DETECTED") = {1}

\* an Issue that a failed attempt and then a successful one have written to
C37_Witness ==
  \E i \in IssueIds :
    /\ issues[i].status = "PR_OPEN"
    /\ Len(events[i]) >= 6
    /\ OfType(events[i], "ERROR") # {}

====
